---- MODULE Spec2Model ----
(***************************************************************************)
(* Model of script/compute_checksums.py: one run of main() over a kernel   *)
(* image.  The image is a byte sequence plus the ELF metadata the LLVM     *)
(* tools print (symbol table, section headers).  Text is modelled at the   *)
(* character level: a token is a sequence of one-character strings and a   *)
(* line is the sequence of tokens str.split() returns for it.              *)
(* A second part models script/flake_all.py, the runner of 'make flake'    *)
(* over the platform configurations (specification SpecFlake).             *)
(***************************************************************************)
EXTENDS Integers, Sequences, FiniteSets, TLC

(* ------------------------------ bounds --------------------------------- *)

\* Number of runs of the tool on the same image that are explored.
MaxRuns == 2

\* Largest number of bytes a rejected write-back gets to store.
MaxPartial == 2

\* Number of bytes another writer stores in the image while the tool runs.
MaxForeign == 1

(* --------------------------- text helpers ------------------------------ *)

HexDigits == <<"0", "1", "2", "3", "4", "5", "6", "7",
               "8", "9", "a", "b", "c", "d", "e", "f">>

DecDigits == <<"0", "1", "2", "3", "4", "5", "6", "7", "8", "9">>

\* Value of one hexadecimal digit, as int(c, 16) reads it.
HexDigitVal(c) == (CHOOSE i \in 1..16 : HexDigits[i] = c) - 1

\* int(tok, 16): most significant digit first.
RECURSIVE HexVal(_)
HexVal(tok) ==
    IF Len(tok) = 0 THEN 0
    ELSE 16 * HexVal(SubSeq(tok, 1, Len(tok) - 1)) + HexDigitVal(tok[Len(tok)])

\* The tools print numbers as zero-padded lower-case hexadecimal of width w.
RECURSIVE ToHex(_, _)
ToHex(n, w) ==
    IF w = 0 THEN <<>>
    ELSE ToHex(n \div 16, w - 1) \o <<HexDigits[(n % 16) + 1]>>

\* Decimal rendering of a section number.
RECURSIVE ToDec(_)
ToDec(n) ==
    IF n < 10 THEN <<DecDigits[n + 1]>>
    ELSE ToDec(n \div 10) \o <<DecDigits[(n % 10) + 1]>>

\* str.endswith(c) for a one-character suffix.
EndsWith(tok, c) == Len(tok) > 0 /\ tok[Len(tok)] = c

\* needle in tok, for character sequences.
IsSubstring(needle, tok) ==
    \E i \in 0..(Len(tok) - Len(needle)) :
        SubSeq(tok, i + 1, i + Len(needle)) = needle

\* symbol_name in line: the name holds no white space, so it occurs in the
\* line exactly when it occurs inside one of the line's tokens.
InLine(needle, parts) == \E k \in 1..Len(parts) : IsSubstring(needle, parts[k])

(* ------------------------------ names ---------------------------------- *)

DotText   == <<".", "t", "e", "x", "t">>
DotRodata == <<".", "r", "o", "d", "a", "t", "a">>
DotData   == <<".", "d", "a", "t", "a">>
DotBss    == <<".", "b", "s", "s">>
DotSdata  == <<".", "s", "d", "a", "t", "a">>
PROGBITS  == <<"P", "R", "O", "G", "B", "I", "T", "S">>
NOBITS    == <<"N", "O", "B", "I", "T", "S">>

\* Symbol names of the fixtures.  SymCk stands for the default
\* platform_expected_checksums; SymCkLong merely contains it.
SymCk     == <<"c", "k">>
SymCkLong == <<"c", "k", "_", "v", "2">>
SymMain   == <<"m", "a", "i", "n">>

(* ----------------------- unsigned 32-bit values ------------------------ *)

\* A uint32 is kept as two 16-bit halves: value = hi * 65536 + lo.
U32(h, l) == [hi |-> h, lo |-> l]

\* Bit p (a power of two) of a XOR b.
XorBit(a, b, p) == p * (((a \div p) + (b \div p)) % 2)

\* a XOR b for 16-bit a and b.
Xor(a, b) ==
    XorBit(a, b, 1) + XorBit(a, b, 2) + XorBit(a, b, 4) + XorBit(a, b, 8)
    + XorBit(a, b, 16) + XorBit(a, b, 32) + XorBit(a, b, 64) + XorBit(a, b, 128)
    + XorBit(a, b, 256) + XorBit(a, b, 512) + XorBit(a, b, 1024)
    + XorBit(a, b, 2048) + XorBit(a, b, 4096) + XorBit(a, b, 8192)
    + XorBit(a, b, 16384) + XorBit(a, b, 32768)

\* One bit of the reflected CRC-32: shift right, fold the polynomial
\* 0xEDB88320 in when the bit shifted out is set.
CrcBit(c) ==
    IF c.lo % 2 = 1
    THEN U32(Xor(c.hi \div 2, 60856),
             Xor((c.lo \div 2) + 32768 * (c.hi % 2), 33568))
    ELSE U32(c.hi \div 2, (c.lo \div 2) + 32768 * (c.hi % 2))

\* The eight bit steps of one byte.
CrcByte(c) == CrcBit(CrcBit(CrcBit(CrcBit(CrcBit(CrcBit(CrcBit(CrcBit(c))))))))

\* The register after the bytes from position k on have been folded in (the
\* test on c.lo, never true, has the register computed byte by byte).
RECURSIVE CrcUpdate(_, _, _)
CrcUpdate(c, bytes, k) ==
    IF c.lo < 0 \/ k > Len(bytes) THEN c
    ELSE CrcUpdate(CrcByte(U32(c.hi, Xor(c.lo, bytes[k]))), bytes, k + 1)

\* The register handed out without the final inversion.
crc32_raw(bytes) == CrcUpdate(U32(65535, 65535), bytes, 1)

\* zlib.crc32(bytes) & 0xFFFFFFFF
crc32(bytes) ==
    LET r == CrcUpdate(U32(65535, 65535), bytes, 1)
    IN  U32(Xor(r.hi, 65535), Xor(r.lo, 65535))

\* struct.pack('>I', v): the same bytes, most significant first.
PackBE(v) == <<v.hi \div 256, v.hi % 256, v.lo \div 256, v.lo % 256>>

\* struct.pack('<I', v): four bytes, least significant first.
PackLE(v) == <<v.lo % 256, v.lo \div 256, v.hi % 256, v.hi \div 256>>

\* struct.unpack('<I', b): the reader's view of four stored bytes.
UnpackLE(b) == U32(b[3] + 256 * b[4], b[1] + 256 * b[2])

\* The value stored one byte too early.
pack_into_early(data, off, v) ==
    [i \in 1..Len(data) |->
        IF i >= off /\ i < off + 4 /\ i >= 1 THEN <<v.lo % 256, v.lo \div 256,
                                                  v.hi % 256, v.hi \div 256>>[i - off + 1]
        ELSE data[i]]

\* struct.pack_into('<I', data, off, v) on a buffer that holds off + 4 bytes.
pack_into(data, off, v) ==
    [i \in 1..Len(data) |->
        IF i > off /\ i <= off + 4 THEN PackLE(v)[i - off] ELSE data[i]]

\* b'\x00' * n
Zeros(n) == [i \in 1..n |-> 0]

(* ------------------------- external tool output ------------------------ *)

\* "[ 3]" splits into "[" and "3]"; "[12]" is a single token.
NrTokens(nr) ==
    IF nr < 10 THEN << <<"[">>, ToDec(nr) \o <<"]">> >>
    ELSE << <<"[">> \o ToDec(nr) \o <<"]">> >>

\* One llvm-readelf -S row after split():
\*   [ Nr] Name Type Address Off Size ES Flg Lk Inf Al
ReadelfRow(s) ==
    NrTokens(s.nr) \o
    << s.name, s.type, ToHex(s.addr, 8), ToHex(s.off, 6), ToHex(s.size, 6),
       <<"0", "0">>, <<"W", "A">>, <<"0">>, <<"0">>, <<"4">> >>

\* The column caption and the NULL section that head every listing.
ReadelfHead ==
    << << <<"[", "N", "r", "]">>, <<"N", "a", "m", "e">>, <<"T", "y", "p", "e">>,
          <<"A", "d", "d", "r", "e", "s", "s">>, <<"O", "f", "f">>,
          <<"S", "i", "z", "e">>, <<"E", "S">>, <<"F", "l", "g">>,
          <<"L", "k">>, <<"I", "n", "f">>, <<"A", "l">> >>,
       << <<"[">>, <<"0", "]">>, <<"N", "U", "L", "L">>, ToHex(0, 8),
          ToHex(0, 6), ToHex(0, 6), <<"0", "0">>, <<"0">>, <<"0">>, <<"0">> >> >>

ReadelfOutput(secs) == ReadelfHead \o [k \in 1..Len(secs) |-> ReadelfRow(secs[k])]

\* One llvm-nm -S row after split(): "address size type name", the size
\* column missing when the symbol has none, the address too when undefined.
NmRow(y) ==
    IF y.type = <<"U">> THEN << y.type, y.name >>
    ELSE IF y.size < 0 THEN << ToHex(y.addr, 8), y.type, y.name >>
    ELSE << ToHex(y.addr, 8), ToHex(y.size, 8), y.type, y.name >>

NmOutput(syms) == [k \in 1..Len(syms) |-> NmRow(syms[k])]

(* ------------------------------ parsers -------------------------------- *)

NoSymbol == [found |-> FALSE]

\* What one line of the loop of get_symbol_address returns, if it returns.
SymbolLineHit(parts, symbol_name) ==
    /\ InLine(symbol_name, parts)
    /\ Len(parts) >= 3

SymbolLineValue(parts) ==
    IF Len(parts) >= 4 /\ parts[3] \in {<<"D">>, <<"d">>, <<"B">>, <<"b">>}
    THEN [found |-> TRUE, addr |-> HexVal(parts[1]), size |-> HexVal(parts[2])]
    ELSE [found |-> TRUE, addr |-> HexVal(parts[1]), size |-> 0]

\* get_symbol_address on the text llvm-nm printed: the first line that
\* contains the name and has enough columns decides.
get_symbol_address(lines, symbol_name) ==
    LET hits == {k \in 1..Len(lines) : SymbolLineHit(lines[k], symbol_name)}
    IN  IF hits = {} THEN NoSymbol
        ELSE SymbolLineValue(lines[CHOOSE k \in hits : \A j \in hits : k <= j])

NoSection == [found |-> FALSE]

\* The token of the Name column: shifted by one when the number is "[ N]".
NameShift(parts) == IF EndsWith(parts[2], "]") THEN 1 ELSE 0

NameCol(parts) == parts[2 + NameShift(parts)]

\* Columns of a section row whose name matched.
SectionRow(parts) ==
    [name   |-> NameCol(parts),
     type   |-> parts[3 + NameShift(parts)],
     vaddr  |-> HexVal(parts[4 + NameShift(parts)]),
     offset |-> HexVal(parts[5 + NameShift(parts)]),
     size   |-> HexVal(parts[6 + NameShift(parts)])]

\* The range test with the end address included.
SectionLineHitInclusive(parts, section_name, addr) ==
    /\ Len(parts) >= 7
    /\ NameCol(parts) = section_name
    /\ SectionRow(parts).vaddr <= addr
    /\ addr <= SectionRow(parts).vaddr + SectionRow(parts).size

\* The row is the section called section_name and its range holds addr.
SectionLineHit(parts, section_name, addr) ==
    /\ Len(parts) >= 7
    /\ NameCol(parts) = section_name
    /\ SectionRow(parts).vaddr <= addr
    /\ addr < SectionRow(parts).vaddr + SectionRow(parts).size

\* The two names tried the other way round.
SectionNamesBssFirst == <<DotBss, DotData>>

\* The names the lookup tries, in this order.
SectionNames == <<DotData, DotBss>>

\* The nested loops of patch_binary: for each name in order, for each line
\* in order, the first hit is patched and the function returns.
FindSection(lines, addr) ==
    LET hits == {c \in (1..Len(SectionNames)) \X (1..Len(lines)) :
                    SectionLineHit(lines[c[2]], SectionNames[c[1]], addr)}
        before(c, d) == c[1] < d[1] \/ (c[1] = d[1] /\ c[2] <= d[2])
    IN  IF hits = {} THEN NoSection
        ELSE LET c == CHOOSE c \in hits : \A d \in hits : before(c, d)
                 r == SectionRow(lines[c[2]])
             IN  [found |-> TRUE, name |-> r.name, type |-> r.type,
                  vaddr |-> r.vaddr, offset |-> r.offset, size |-> r.size,
                  line |-> c[2]]

(* ------------------------------ fixtures ------------------------------- *)

\* Section headers of the image: .text and .rodata, then .data, .sdata and
\* the NOBITS .bss, whose address range either follows .sdata or (ba = 76)
\* intersects .data.
SecText       == [name |-> DotText, type |-> PROGBITS, addr |-> 64, off |-> 2, size |-> 4]
SecRodata(rs) == [name |-> DotRodata, type |-> PROGBITS, addr |-> 68, off |-> 6, size |-> rs]
SecData       == [name |-> DotData, type |-> PROGBITS, addr |-> 72, off |-> 10, size |-> 12]
SecSdata      == [name |-> DotSdata, type |-> PROGBITS, addr |-> 84, off |-> 22, size |-> 8]
SecBss(ba)    == [name |-> DotBss, type |-> NOBITS, addr |-> ba, off |-> 30, size |-> 16]

\* A read-only section the linker script places behind .bss: its bytes start
\* in the file where the bytes of .bss would.
SecRodataLast == [name |-> DotRodata, type |-> PROGBITS, addr |-> 108, off |-> 30, size |-> 4]

Numbered(secs, base) ==
    [k \in 1..Len(secs) |-> [nr |-> base + k - 1] @@ secs[k]]

Layouts ==
    { Numbered(IF bssFirst
               THEN <<SecText, SecBss(ba), SecRodata(rs), SecSdata, SecData>>
               ELSE <<SecText, SecRodata(rs), SecData, SecSdata, SecBss(ba)>>, base) :
        <<bssFirst, ba, rs, base>> \in BOOLEAN \X {92, 76} \X {4, 0} \X {1, 7} }
    \cup { Numbered(<<SecText, SecData, SecSdata, SecBss(92), SecRodataLast>>, 1) }

SymAddrs == {64, 72, 76, 84, 92, 96, 112}

SymType(a) == IF a < 72 THEN <<"T">> ELSE IF a < 92 THEN <<"D">> ELSE <<"B">>

SymEntry(n, a, sz) == [name |-> n, addr |-> a, size |-> sz, type |-> SymType(a)]

SymUndef(n) == [name |-> n, addr |-> 0, size |-> -1, type |-> <<"U">>]

SymTabs ==
    UNION { { << SymEntry(SymMain, 64, -1), SymEntry(SymCk, a, 8) >>,
              << SymEntry(SymMain, 64, -1), SymEntry(SymCkLong, 72, 8), SymEntry(SymCk, a, 8) >>,
              << SymEntry(SymMain, 64, -1), SymEntry(SymCkLong, a, 8) >>,
              << SymEntry(SymMain, 64, -1) >>,
              << SymEntry(SymMain, 64, -1), SymUndef(SymCk) >> } : a \in SymAddrs }

\* File lengths: cut short inside .data, ending where .bss would start,
\* ending inside the first .bss bytes, and with trailing tables after it.
FileLens == {16, 30, 36, 44}

\* Image bytes: a two-byte header, the code bytes, the read-only bytes and a
\* non-zero pattern for everything behind them.
ImageByte(i, rs) ==
    IF i <= 2 THEN 126 + i
    ELSE IF i <= 6 THEN (IF rs = 4 THEN <<195, 216, 36, 6>> ELSE <<1, 2, 3, 4>>)[i - 2]
    ELSE IF i <= 10 THEN <<37, 122, 57, 186>>[i - 6]
    ELSE 160 + i

Image(len, rs) == [i \in 1..len |-> ImageByte(i, rs)]

RodataSize(secs) ==
    LET k == CHOOSE k \in 1..Len(secs) : secs[k].name = DotRodata IN secs[k].size


(* --------------------- script/flake_all.py: text ----------------------- *)

\* Number of platforms of PLATFORMS that are explored.
NrPlatforms == 2

PLATFORMS == <<"arm64", "arm32", "x64", "x32", "rv64", "rv32">>

USE_PCI_OPTIONS == {0, 1}

MAX_PARALLEL == 4

\* main, lines 124-128: one task per platform and transport.
tasks == {<<PLATFORMS[i], u>> : i \in 1..NrPlatforms, u \in USE_PCI_OPTIONS}

\* The check mark U+2713 and the cross U+2717 of the output, each one character.
Tick  == "Y"
Cross == "X"

TickPassed  == <<Tick, " ", "P", "A", "S", "S", "E", "D">>
CrossFailed == <<Cross, " ", "F", "A", "I", "L", "E", "D">>
ResultsColon == <<"R", "e", "s", "u", "l", "t", "s", ":", " ">>
SpacePassed  == <<" ", "p", "a", "s", "s", "e", "d">>
Bars == <<"=", "=", "=">>

\* What 'make flake' prints for run k of n: "[k/n] <mark> PASSED|FAILED".
RunLine(k, n, ok) ==
    <<"[">> \o ToDec(k) \o <<"/">> \o ToDec(n) \o <<"]", " ">>
        \o (IF ok THEN TickPassed ELSE CrossFailed)

\* "=== Results: p/n passed ===".
SummaryLine(p, n) ==
    Bars \o <<" ">> \o ResultsColon \o ToDec(p) \o <<"/">> \o ToDec(n)
         \o SpacePassed \o <<" ">> \o Bars

NrPassed(results) == Cardinality({k \in 1..Len(results) : results[k]})

\* stdout of 'make flake' for the given runs, with or without the summary.
FlakeStdout(results, summary) ==
    [k \in 1..Len(results) |-> RunLine(k, Len(results), results[k])]
        \o (IF summary THEN <<SummaryLine(NrPassed(results), Len(results))>>
            ELSE IF results = <<>> THEN <<<<"m", "a", "k", "e", ":", " ", "*", "*", "*">>>>
            ELSE <<>>)

\* needle occurs in line at position i.
At(line, i, needle) ==
    /\ i >= 1
    /\ i + Len(needle) - 1 <= Len(line)
    /\ SubSeq(line, i, i + Len(needle) - 1) = needle

IsDigit(c) == \E d \in 1..10 : DecDigits[d] = c

\* Last position of the run of digits that starts at a (a - 1 if there is none).
DigitRun(line, a) ==
    LET ends == {b \in a..Len(line) : \A x \in a..b : IsDigit(line[x])}
    IN  IF ends = {} THEN a - 1 ELSE CHOOSE b \in ends : \A y \in ends : y <= b

\* int(tok): decimal, most significant digit first.
RECURSIVE DecVal(_)
DecVal(tok) ==
    IF Len(tok) = 0 THEN 0
    ELSE 10 * DecVal(SubSeq(tok, 1, Len(tok) - 1))
            + (CHOOSE d \in 1..10 : DecDigits[d] = tok[Len(tok)]) - 1

NoMatch == [found |-> FALSE]

\* re.search(r'Results: (\d+)/(\d+) passed', ...) tried at position i of a line.
SummaryAt(line, i) ==
    LET a == i + Len(ResultsColon)
        b == DigitRun(line, a)
        c == b + 2
        d == DigitRun(line, c)
    IN  IF /\ At(line, i, ResultsColon)
           /\ a <= b
           /\ At(line, b + 1, <<"/">>)
           /\ c <= d
           /\ At(line, d + 1, SpacePassed)
        THEN [found |-> TRUE, passed |-> DecVal(SubSeq(line, a, b)),
              total |-> DecVal(SubSeq(line, c, d))]
        ELSE NoMatch

\* The leftmost match in the output; the pattern holds no newline, so a
\* match lies inside one line.
summary_match(lines) ==
    LET hits == UNION { {<<k, i>> : i \in {j \in 1..Len(lines[k]) :
                                            SummaryAt(lines[k], j).found}} :
                        k \in 1..Len(lines) }
    IN  IF hits = {} THEN NoMatch
        ELSE LET h == CHOOSE h \in hits :
                        \A g \in hits : h[1] < g[1] \/ (h[1] = g[1] /\ h[2] <= g[2])
             IN  SummaryAt(lines[h[1]], h[2])

\* The other outcomes of subprocess.run, lines 104-109.
Timeout  == [kind |-> "timeout"]
RunError == [kind |-> "error"]

Completed(results, summary, rc) ==
    [kind |-> "completed", results |-> results, summary |-> summary, returncode |-> rc]

ConfigStats(platform, use_pci, total_runs, passed_runs, failed_runs, success) ==
    [platform |-> platform, use_pci |-> use_pci, total_runs |-> total_runs,
     passed_runs |-> passed_runs, failed_runs |-> failed_runs, success |-> success]

\* ConfigStats.status, lines 48-56.
status(stats) ==
    IF stats.passed_runs = stats.total_runs THEN "works"
    ELSE IF stats.passed_runs > 0 THEN "flaky"
    ELSE "broken"

\* run_flake_test, lines 59-109, on what subprocess.run gave.
run_flake_test(platform, use_pci, out) ==
    IF out.kind # "completed"
    THEN ConfigStats(platform, use_pci, 10, 0, 10, FALSE)
    ELSE LET lines  == FlakeStdout(out.results, out.summary)
             hitsP  == {k \in 1..Len(lines) : \E i \in 1..Len(lines[k]) :
                            At(lines[k], i, TickPassed)}
             hitsF  == {k \in (1..Len(lines)) \ hitsP : \E i \in 1..Len(lines[k]) :
                            At(lines[k], i, CrossFailed)}
             m      == summary_match(lines)
             passed == IF m.found THEN m.passed
                       ELSE IF Cardinality(hitsP) + Cardinality(hitsF) = 0 THEN 0
                       ELSE Cardinality(hitsP)
             failed == IF m.found THEN m.total - m.passed
                       ELSE IF Cardinality(hitsP) + Cardinality(hitsF) = 0 THEN 10
                       ELSE Cardinality(hitsF)
         IN  ConfigStats(platform, use_pci, 10, passed, failed, out.returncode = 0)

AllOf(n, ok) == [k \in 1..n |-> ok]

\* Outcomes of one 'make flake': ten runs with the summary (all passed, eight
\* passed, none passed), five runs all passed, an output cut before the
\* summary, the runs without a summary, an output with no run in it, a
\* timeout and a failure to start make.
Outcomes ==
    { Completed(AllOf(10, TRUE), TRUE, 0),
      Completed(AllOf(8, TRUE) \o AllOf(2, FALSE), TRUE, 2),
      Completed(AllOf(10, FALSE), TRUE, 2),
      Completed(AllOf(5, TRUE), TRUE, 0),
      Completed(AllOf(3, TRUE), FALSE, 2),
      Completed(<<FALSE, TRUE>> \o AllOf(8, TRUE), FALSE, 2),
      Completed(<<>>, FALSE, 2),
      Timeout,
      RunError }

(* ------------------------------- state --------------------------------- *)

VARIABLES
    exists,       \* elf_path.exists()
    file,         \* the bytes of the image as persisted on disk
    sections,     \* the image's section headers
    symtab,       \* the image's symbol table
    symbol,       \* args.symbol
    verify_only,  \* args.verify_only
    pc,           \* stage the run has reached
    text_data,    \* get_section_data(elf, '.text')
    rodata_data,  \* get_section_data(elf, '.rodata')
    text_crc,
    rodata_crc,
    sym,          \* result of get_symbol_address
    sect,         \* the section row the lookup settled on
    file_offset,
    data,         \* the bytearray read from the file
    exit,         \* process exit status, -1 while running
    failure,      \* why the run failed
    run,          \* number of the current run
    file0,        \* the file when the current run started
    prev,         \* what the previous run reported
    foreign,      \* what another writer stored in the image meanwhile
    futures,      \* flake_all: each task's future: queued, running or done
    output,       \* flake_all: what subprocess.run gave for each task
    all_stats,    \* flake_all: the ConfigStats collected so far
    flake_exit    \* flake_all: exit status, -1 while running

vars == <<exists, file, sections, symtab, symbol, verify_only, pc, text_data,
          rodata_data, text_crc, rodata_crc, sym, sect, file_offset, data,
          exit, failure, run, file0, prev, foreign,
          futures, output, all_stats, flake_exit>>

\* The state of compute_checksums.py and the state of flake_all.py.
tool   == <<exists, file, sections, symtab, symbol, verify_only, pc, text_data,
            rodata_data, text_crc, rodata_crc, sym, sect, file_offset, data,
            exit, failure, run, file0, prev, foreign>>
runner == <<futures, output, all_stats, flake_exit>>

image   == <<exists, file, sections, symtab>>
args    == <<symbol, verify_only>>
history == <<run, file0, prev, foreign>>

NoData == [ok |-> FALSE]
NoCrc  == U32(0, 0)
NoPrev == [ran |-> FALSE]
NoForeign == [n |-> 0]
NoOutput == [kind |-> "none"]

\* flake_all.py before any task has started.
RunnerInit ==
    /\ futures = [c \in tasks |-> "queued"]
    /\ output = [c \in tasks |-> NoOutput]
    /\ all_stats = <<>>
    /\ flake_exit = -1

\* Number of bytes the two checksums occupy.
PayloadLen == 8

Init ==
    /\ \/ /\ exists = TRUE
          /\ sections \in Layouts
          /\ symtab \in SymTabs
          /\ \E len \in FileLens : file = Image(len, RodataSize(sections))
       \/ /\ exists = FALSE
          /\ sections = <<>>
          /\ symtab = <<>>
          /\ file = <<>>
    /\ symbol \in {SymCk, SymMain}
    /\ verify_only \in BOOLEAN
    /\ pc = "Start"
    /\ text_data = NoData
    /\ rodata_data = NoData
    /\ text_crc = NoCrc
    /\ rodata_crc = NoCrc
    /\ sym = NoSymbol
    /\ sect = NoSection
    /\ file_offset = -1
    /\ data = <<>>
    /\ exit = -1
    /\ failure = "none"
    /\ run = 1
    /\ file0 = file
    /\ prev = NoPrev
    /\ foreign = NoForeign
    /\ RunnerInit

(* ------------------------------ actions -------------------------------- *)

\* The failure recorded but the status left at zero.
FailSilently(reason) ==
    /\ pc' = "Failed"
    /\ failure' = reason
    /\ exit' = 0

Fail(reason) ==
    /\ pc' = "Failed"
    /\ failure' = reason
    /\ exit' = 1

\* main, lines 171-174: the image path does not exist.
CheckMissing ==
    /\ pc = "Start"
    /\ ~exists
    /\ Fail("ImageNotFound")
    /\ UNCHANGED <<runner, image, args, text_data, rodata_data, text_crc, rodata_crc,
                   sym, sect, file_offset, data, history>>

\* llvm-objcopy --dump-section: the bytes the file holds for the section; the
\* tool fails when the section is missing or the file ends before it does.
SectionBytes(img, secs, name) ==
    LET ks == {k \in 1..Len(secs) : secs[k].name = name}
    IN  IF ks = {} THEN NoData
        ELSE LET s == secs[CHOOSE k \in ks : TRUE]
             IN  IF s.off + s.size > Len(img) THEN NoData
                 ELSE [ok |-> TRUE, bytes |-> SubSeq(img, s.off + 1, s.off + s.size)]

\* get_section_data: None when the tool exits with an error.
get_section_data(img, secs, name, toolOk) ==
    IF toolOk THEN SectionBytes(img, secs, name) ELSE NoData

\* Only the code section looked at.
TextMissing(t, r) == t = NoData

\* main, line 181: text_data is None or rodata_data is None
ExtractionFailed(t, r) == t = NoData \/ r = NoData

\* main, lines 176-183: extract .text and .rodata, stop if either is missing.
ExtractSections ==
    /\ pc = "Start"
    /\ exists
    /\ \E okT \in BOOLEAN, okR \in BOOLEAN :
        /\ text_data' = get_section_data(file, sections, DotText, okT)
        /\ rodata_data' = get_section_data(file, sections, DotRodata, okR)
    /\ IF ExtractionFailed(text_data', rodata_data')
       THEN Fail("SectionExtractionError")
       ELSE pc' = "SectionsExtracted" /\ UNCHANGED <<failure, exit>>
    /\ UNCHANGED <<runner, image, args, text_crc, rodata_crc, sym, sect, file_offset,
                   data, history>>

\* The flag is not looked at.
StageIgnoringVerify(verify) == "ChecksumsComputed"

\* main, lines 192-193: verify-only returns 0 before any patching.
StageAfterChecksums(verify) == IF verify THEN "Verified" ELSE "ChecksumsComputed"

\* main, lines 185-193: compute both checksums; verify-only stops here.
ComputeChecksums ==
    /\ pc = "SectionsExtracted"
    /\ text_crc' = crc32(text_data.bytes)
    /\ rodata_crc' = crc32(rodata_data.bytes)
    /\ pc' = StageAfterChecksums(verify_only)
    /\ exit' = IF pc' = "Verified" THEN 0 ELSE exit
    /\ UNCHANGED <<runner, image, args, text_data, rodata_data, sym, sect, file_offset,
                   data, failure, history>>

\* patch_binary, lines 67-71: resolve the symbol or give up.
ResolveSymbol ==
    /\ pc = "ChecksumsComputed"
    /\ \E toolOk \in BOOLEAN :
        sym' = IF toolOk THEN get_symbol_address(NmOutput(symtab), symbol)
               ELSE NoSymbol
    /\ IF sym'.found
       THEN pc' = "SymbolResolved" /\ UNCHANGED <<failure, exit>>
       ELSE Fail("SymbolNotFound")
    /\ UNCHANGED <<runner, image, args, text_data, rodata_data, text_crc, rodata_crc,
                   sect, file_offset, data, history>>

\* patch_binary, lines 75-104 and 153-158: list the sections and look for
\* the one that holds the symbol.
ResolveLayout ==
    /\ pc = "SymbolResolved"
    /\ \E toolOk \in BOOLEAN :
        IF ~toolOk
        THEN Fail("SectionListError") /\ UNCHANGED sect
        ELSE /\ sect' = FindSection(ReadelfOutput(sections), sym.addr)
             /\ IF sect'.found
                THEN pc' = "LayoutResolved" /\ UNCHANGED <<failure, exit>>
                ELSE Fail("SymbolSectionNotFound")
    /\ UNCHANGED <<runner, image, args, text_data, rodata_data, text_crc, rodata_crc,
                   sym, file_offset, data, history>>

\* The section's offset with the address delta dropped.
FileOffsetNoDelta(offset, addr, vaddr) == offset

\* file_offset = offset + (addr - vaddr)
FileOffset(offset, addr, vaddr) == offset + (addr - vaddr)

\* patch_binary, lines 110 and 134.
Translate ==
    /\ pc = "LayoutResolved"
    /\ file_offset' = FileOffset(sect.offset, sym.addr, sect.vaddr)
    /\ pc' = "OffsetTranslated"
    /\ UNCHANGED <<runner, image, args, text_data, rodata_data, text_crc, rodata_crc,
                   sym, sect, data, exit, failure, history>>

\* patch_binary, lines 113-114 and 137-138.
ReadImage ==
    /\ pc = "OffsetTranslated"
    /\ data' = file
    /\ pc' = "ImageRead"
    /\ UNCHANGED <<runner, image, args, text_data, rodata_data, text_crc, rodata_crc,
                   sym, sect, file_offset, exit, failure, history>>

\* The growth computed without subtracting the present length.
ExpandedTooFar(buf, type, off) ==
    IF type = <<"N", "O", "B", "I", "T", "S">> /\ Len(buf) < off + 8
    THEN buf \o [i \in 1..(off + 8) |-> 0]
    ELSE buf

\* Lines 117-118: only the NOBITS branch grows the buffer.
Expanded(buf, type, off) ==
    IF type = NOBITS /\ Len(buf) < off + PayloadLen
    THEN buf \o Zeros(off + PayloadLen - Len(buf))
    ELSE buf

\* patch_binary, lines 116-122 and 140-142: grow the buffer (NOBITS only) and
\* store both values; struct.error ends the run when a value does not fit.
PatchBuffer ==
    /\ pc = "ImageRead"
    /\ LET buf == Expanded(data, sect.type, file_offset)
       IN  IF file_offset + 4 > Len(buf)
           THEN Fail("StructError") /\ UNCHANGED data
           ELSE IF file_offset + PayloadLen > Len(buf)
           THEN Fail("StructError") /\ data' = pack_into(buf, file_offset, text_crc)
           ELSE /\ data' = pack_into(pack_into(buf, file_offset, text_crc),
                                     file_offset + 4, rodata_crc)
                /\ pc' = "BufferPatched"
                /\ UNCHANGED <<failure, exit>>
    /\ UNCHANGED <<runner, image, args, text_data, rodata_data, text_crc, rodata_crc,
                   sym, sect, file_offset, history>>

\* patch_binary, lines 125 and 145: open(elf_path, 'wb') empties the file;
\* when the open is refused the file stays as it was.
OpenForWrite ==
    /\ pc = "BufferPatched"
    /\ \/ /\ file' = <<>>
          /\ pc' = "Opened"
          /\ UNCHANGED <<failure, exit>>
       \/ /\ Fail("PatchWriteError")
          /\ UNCHANGED file
    /\ UNCHANGED <<runner, exists, sections, symtab, args, text_data, rodata_data,
                   text_crc, rodata_crc, sym, sect, file_offset, data, history>>

\* patch_binary, lines 126 and 146: f.write(data) and the close of the file.
\* A write the storage rejects leaves the first n bytes behind.
WriteBack ==
    /\ pc = "Opened"
    /\ \/ /\ file' = data
          /\ pc' = "Written"
          /\ UNCHANGED <<failure, exit>>
       \/ \E n \in 0..MaxPartial :
          /\ n < Len(data)
          /\ file' = SubSeq(data, 1, n)
          /\ Fail("PatchWriteError")
    /\ UNCHANGED <<runner, exists, sections, symtab, args, text_data, rodata_data,
                   text_crc, rodata_crc, sym, sect, file_offset, data, history>>

\* patch_binary, lines 128-131 and 148-151, main, lines 196-200.
Report ==
    /\ pc = "Written"
    /\ pc' = "Patched"
    /\ exit' = 0
    /\ UNCHANGED <<runner, image, args, text_data, rodata_data, text_crc, rodata_crc,
                   sym, sect, file_offset, data, failure, history>>

Terminated == pc \in {"Patched", "Verified", "Failed"}

\* The tool is started again on the image the last run left behind.
Rerun ==
    /\ Terminated
    /\ run < MaxRuns
    /\ run' = run + 1
    /\ prev' = [ran |-> TRUE, verify_only |-> verify_only, pc |-> pc,
                exit |-> exit, text_crc |-> text_crc, rodata_crc |-> rodata_crc,
                file_offset |-> file_offset, file0 |-> file0,
                failure |-> failure]
    /\ file0' = file
    /\ verify_only' \in BOOLEAN
    /\ pc' = "Start"
    /\ text_data' = NoData
    /\ rodata_data' = NoData
    /\ text_crc' = NoCrc
    /\ rodata_crc' = NoCrc
    /\ sym' = NoSymbol
    /\ sect' = NoSection
    /\ file_offset' = -1
    /\ data' = <<>>
    /\ exit' = -1
    /\ failure' = "none"
    /\ UNCHANGED <<runner, image, symbol, foreign>>

Next ==
    \/ CheckMissing
    \/ ExtractSections
    \/ ComputeChecksums
    \/ ResolveSymbol
    \/ ResolveLayout
    \/ Translate
    \/ ReadImage
    \/ PatchBuffer
    \/ OpenForWrite
    \/ WriteBack
    \/ Report
    \/ Rerun

Spec == Init /\ [][Next]_vars

(* ---------------------------- environment ------------------------------ *)

\* subprocess.run is called without a timeout (lines 24, 38, 76): a tool that
\* never returns leaves the run inside the call.
ToolHangs ==
    /\ \/ pc = "Start" /\ exists
       \/ pc = "ChecksumsComputed"
       \/ pc = "SymbolResolved"
    /\ pc' = "Blocked"
    /\ UNCHANGED <<runner, image, args, text_data, rodata_data, text_crc, rodata_crc,
                   sym, sect, file_offset, data, exit, failure, history>>

\* The image is opened without any lock (lines 113, 125, 137, 145): between
\* the tool's read and its write-back another process may store a byte.
OtherWriter ==
    /\ pc \in {"ImageRead", "BufferPatched"}
    /\ foreign.n < MaxForeign
    /\ Len(file) > 0
    /\ file[1] # 255
    /\ file' = [file EXCEPT ![1] = 255]
    /\ foreign' = [n |-> foreign.n + 1, pos |-> 1, val |-> 255, run |-> run]
    /\ UNCHANGED <<runner, exists, sections, symtab, args, pc, text_data, rodata_data,
                   text_crc, rodata_crc, sym, sect, file_offset, data, exit,
                   failure, run, file0, prev>>

NextEnv == Next \/ ToolHangs \/ OtherWriter

SpecEnv == Init /\ [][NextEnv]_vars

(* ------------------------- script/flake_all.py ------------------------- *)

\* compute_checksums.py is not running.
ToolIdle ==
    /\ exists = FALSE
    /\ sections = <<>>
    /\ symtab = <<>>
    /\ file = <<>>
    /\ symbol = SymCk
    /\ verify_only = FALSE
    /\ pc = "Start"
    /\ text_data = NoData
    /\ rodata_data = NoData
    /\ text_crc = NoCrc
    /\ rodata_crc = NoCrc
    /\ sym = NoSymbol
    /\ sect = NoSection
    /\ file_offset = -1
    /\ data = <<>>
    /\ exit = -1
    /\ failure = "none"
    /\ run = 1
    /\ file0 = <<>>
    /\ prev = NoPrev
    /\ foreign = NoForeign

InitFlake == ToolIdle /\ RunnerInit

Running == {c \in tasks : futures[c] = "running"}

\* ThreadPoolExecutor(max_workers=MAX_PARALLEL), line 133: a free worker
\* takes a submitted task.
StartTest(c) ==
    /\ flake_exit = -1
    /\ futures[c] = "queued"
    /\ Cardinality(Running) < MAX_PARALLEL
    /\ futures' = [futures EXCEPT ![c] = "running"]
    /\ UNCHANGED <<tool, output, all_stats, flake_exit>>

\* run_flake_test returns and the as_completed loop, lines 139-143, appends
\* its result.
FinishTest(c) ==
    /\ futures[c] = "running"
    /\ \E out \in Outcomes :
        /\ output' = [output EXCEPT ![c] = out]
        /\ all_stats' = Append(all_stats, run_flake_test(c[1], c[2], out))
    /\ futures' = [futures EXCEPT ![c] = "done"]
    /\ UNCHANGED <<tool, flake_exit>>

Having(stats, st) == {k \in 1..Len(stats) : status(stats[k]) = st}

\* main, lines 149-191: categorize and exit.
Summarise ==
    /\ flake_exit = -1
    /\ \A c \in tasks : futures[c] = "done"
    /\ flake_exit' = IF Having(all_stats, "broken") # {} \/ Having(all_stats, "flaky") # {}
                     THEN 1 ELSE 0
    /\ UNCHANGED <<tool, futures, output, all_stats>>

NextFlake ==
    \/ \E c \in tasks : StartTest(c)
    \/ \E c \in tasks : FinishTest(c)
    \/ Summarise

SpecFlake == InitFlake /\ [][NextFlake]_vars

TypeOK ==
    /\ pc \in {"Start", "SectionsExtracted", "ChecksumsComputed", "SymbolResolved",
               "LayoutResolved", "OffsetTranslated", "ImageRead", "BufferPatched",
               "Opened", "Written", "Patched", "Verified", "Failed", "Blocked"}
    /\ exit \in {-1, 0, 1}
    /\ \A i \in 1..Len(file) : file[i] \in 0..255
    /\ \A i \in 1..Len(data) : data[i] \in 0..255

(* ----------------------------- properties ------------------------------ *)

\* The section header the chosen readelf row was printed from.
UsedSection == sections[sect.line - Len(ReadelfHead)]

Contains(s, a) == s.addr <= a /\ a < s.addr + s.size

\* The bytes of f in [file_offset, file_offset + 8).
Window(f) == SubSeq(f, file_offset + 1, file_offset + PayloadLen)

\* Read back from f, the window decodes to the code checksum followed by the
\* read-only-data checksum.
HoldsChecksums(f) ==
    /\ Len(f) >= file_offset + PayloadLen
    /\ UnpackLE(SubSeq(Window(f), 1, 4)) = text_crc
    /\ UnpackLE(SubSeq(Window(f), 5, 8)) = rodata_crc

\* Bytes of the file the run started with that lie outside the window.
Outside(i) == i <= file_offset \/ i > file_offset + PayloadLen

FramePreserved ==
    \A i \in 1..Len(file0) : Outside(i) => (i <= Len(file) /\ file[i] = file0[i])

\* The symbol lookup of this run has been made.
SymbolStageDone ==
    \/ pc \in {"SymbolResolved", "LayoutResolved", "OffsetTranslated", "ImageRead",
               "BufferPatched", "Opened", "Written", "Patched"}
    \/ pc = "Failed" /\ failure \in {"SymbolNotFound", "SectionListError",
                                     "SymbolSectionNotFound", "StructError",
                                     "PatchWriteError"}

\* The section lookup of this run has been made on a listing that was read.
LayoutStageDone ==
    \/ pc \in {"LayoutResolved", "OffsetTranslated", "ImageRead",
               "BufferPatched", "Opened", "Written", "Patched"}
    \/ pc = "Failed" /\ failure \in {"SymbolSectionNotFound", "StructError",
                                     "PatchWriteError"}

\* C1: a patch whose target address V lies in a file-backed section S stores
\* the payload at file offset S.fileOffset + (V - S.virtualAddress).
C1_FileBackedOffset ==
    (file_offset >= 0 /\ sect.found /\ UsedSection.type = PROGBITS) =>
        /\ Contains(UsedSection, sym.addr)
        /\ file_offset = UsedSection.off + (sym.addr - UsedSection.addr)
        /\ pc = "Patched" => HoldsChecksums(file)

C1_Witness ==
    /\ pc = "Patched"
    /\ UsedSection.type = PROGBITS
    /\ sym.addr > UsedSection.addr
    /\ UsedSection.nr < 10

\* C2: after a successful patch every byte below the old file length and
\* outside [offset, offset+8) is the byte that was there before the patch.
C2_FrameOutsideWindow ==
    pc = "Patched" => FramePreserved

C2_Witness ==
    /\ pc = "Patched"
    /\ file # file0
    /\ file_offset > 0
    /\ Len(file0) > file_offset + PayloadLen

\* C3: a successful patch of a NOBITS target with offset + 8 beyond the old
\* length L leaves a file of length exactly offset + 8 whose bytes [L, offset)
\* are zero and whose bytes [offset, offset+8) are the two checksums.
C3_ZeroInitExpansion ==
    (pc = "Patched" /\ UsedSection.type = NOBITS
        /\ file_offset + PayloadLen > Len(file0)) =>
        /\ Len(file) = file_offset + PayloadLen
        /\ \A i \in (Len(file0) + 1)..file_offset : file[i] = 0
        /\ HoldsChecksums(file)

C3_Witness ==
    /\ pc = "Patched"
    /\ UsedSection.type = NOBITS
    /\ Len(file0) < file_offset
    /\ Len(file) = file_offset + PayloadLen

\* C4: for a target resolved to a NOBITS section the computed offset is at or
\* beyond the end of the file as it was before the patch.
C4_ZeroInitBeyondEnd ==
    (file_offset >= 0 /\ sect.found /\ UsedSection.type = NOBITS) =>
        file_offset >= Len(file0)

\* C5: when a run has terminated the persisted file is the fully patched
\* image or byte for byte the image the run started with.
C5_AtomicPatch ==
    Terminated =>
        \/ file = file0
        \/ /\ file_offset >= 0
           /\ HoldsChecksums(file)
           /\ FramePreserved

\* The requested name is the name of no symbol-table entry.
SymbolAbsent == \A k \in 1..Len(symtab) : symtab[k].name # symbol

\* C6: when the requested name is absent from the symbol table the run ends
\* in Failed(SymbolNotFound) with a non-zero exit status and the file unchanged.
C6_AbsentSymbolFails ==
    (SymbolAbsent /\ SymbolStageDone) =>
        /\ pc = "Failed"
        /\ failure = "SymbolNotFound"
        /\ exit = 1
        /\ file = file0

\* Sections of the layout whose address range holds the symbol's address.
Holders == {k \in 1..Len(sections) : Contains(sections[k], sym.addr)}

\* The ones among them that the lookup considers at all.
Candidates == {k \in Holders : sections[k].name \in {DotData, DotBss}}

\* C7 as stated: SymbolSectionNotFound exactly when no section of the layout
\* holds the address; otherwise a section holding it is the one used.
C7_NotFoundIffNoSection ==
    LayoutStageDone =>
        IF Holders = {}
        THEN pc = "Failed" /\ failure = "SymbolSectionNotFound" /\ file = file0
        ELSE /\ failure # "SymbolSectionNotFound"
             /\ sect.found
             /\ (sect.line - Len(ReadelfHead)) \in Holders

\* C7 amended: SymbolSectionNotFound exactly when neither .data nor .bss holds
\* the address; otherwise the section used is one of the two that holds it.
C7_NotFoundIffNoCandidate ==
    LayoutStageDone =>
        IF Candidates = {}
        THEN pc = "Failed" /\ failure = "SymbolSectionNotFound" /\ exit = 1
             /\ file = file0
        ELSE /\ failure # "SymbolSectionNotFound"
             /\ sect.found
             /\ (sect.line - Len(ReadelfHead)) \in Candidates

C7_Witness ==
    /\ pc = "Failed"
    /\ failure = "SymbolSectionNotFound"
    /\ Holders # {}
    /\ run = 1

\* The .data section of the layout holds the symbol's address.
DataHolds == \E k \in Holders : sections[k].name = DotData

\* C8: the file-backed .data candidate wins whenever it holds the address,
\* whatever .bss holds and wherever the rows stand; .bss is used only when
\* .data does not hold the address.
C8_DataBeforeBss ==
    (LayoutStageDone /\ sect.found) =>
        /\ DataHolds => (UsedSection.name = DotData /\ UsedSection.type = PROGBITS)
        /\ UsedSection.name = DotBss => ~DataHolds

C8_Witness ==
    /\ pc = "Patched"
    /\ UsedSection.name = DotData
    /\ \E k \in Holders : sections[k].name = DotBss /\ k < sect.line - Len(ReadelfHead)

\* C9: a verify-only run never changes the file, never resolves a symbol,
\* looks up a section or builds a patch, exits 0 once both checksums were
\* computed, and reports the same checksums as a verify-only run before it.
C9_VerifyOnly ==
    verify_only =>
        /\ file = file0
        /\ pc \in {"Start", "SectionsExtracted", "Verified", "Failed"}
        /\ sym = NoSymbol /\ sect = NoSection /\ file_offset = -1 /\ data = <<>>
        /\ (Terminated /\ text_data # NoData /\ rodata_data # NoData) =>
                (pc = "Verified" /\ exit = 0)
        /\ (pc = "Verified" /\ prev.ran /\ prev.verify_only /\ prev.pc = "Verified") =>
                (text_crc = prev.text_crc /\ rodata_crc = prev.rodata_crc)

C9_Witness ==
    /\ verify_only
    /\ pc = "Verified"
    /\ exit = 0
    /\ prev.ran /\ prev.verify_only /\ prev.pc = "Verified"
    /\ text_crc = U32(57005, 48879)

\* C10: after a successful patch the four bytes at the offset decode, least
\* significant byte first, to the code checksum and the next four to the
\* read-only-data checksum.
C10_RoundTrip ==
    pc = "Patched" =>
        /\ UnpackLE(SubSeq(file, file_offset + 1, file_offset + 4)) = text_crc
        /\ UnpackLE(SubSeq(file, file_offset + 5, file_offset + 8)) = rodata_crc

C10_Witness ==
    /\ pc = "Patched"
    /\ text_crc = U32(57005, 48879)
    /\ rodata_crc = U32(51966, 47806)
    /\ Window(file) = <<239, 190, 173, 222, 190, 186, 254, 202>>

\* C11: at the end of every run the persisted image is at least as long as
\* it was when the run started.
C11_NeverTruncated ==
    Terminated => Len(file) >= Len(file0)

\* Both candidates, .data and .bss, hold the symbol's address.
BothHold == DataHolds /\ \E k \in Holders : sections[k].name = DotBss

\* C12: a layout whose .data and .bss ranges both hold the symbol's address is
\* rejected: no section is picked and the file is not patched.
C12_OverlapRejected ==
    (LayoutStageDone /\ BothHold) =>
        (~sect.found /\ pc = "Failed" /\ file = file0)

\* C13: a byte another writer stored between the tool's read of the image
\* and its write-back is still in the file after the write-back.
C13_NoLostUpdate ==
    (pc \in {"Written", "Patched"} /\ foreign.n > 0 /\ foreign.run = run) =>
        file[foreign.pos] = foreign.val

\* C14: a run never stays in a state that is not terminal: wherever the run
\* has not ended Patched, Verified or Failed a step is possible. (The checksum
\* stage needs no test: crc32 is total on the extracted bytes.)
C14_AlwaysTerminates ==
    (~Terminated /\ pc # "SectionsExtracted") => ENABLED NextEnv

\* C15: the exit status is zero exactly when the run ended Patched or, in
\* verify-only mode, after both checksums were computed; every failure of a
\* stage ends the run with a non-zero status.
C15_ExitStatus ==
    /\ exit = 0 <=> pc \in {"Patched", "Verified"}
    /\ exit # -1 <=> Terminated
    /\ pc = "Failed" => (exit = 1 /\ failure # "none")
    /\ pc = "Verified" => (verify_only /\ text_data.ok /\ rodata_data.ok)
    /\ pc = "Patched" => (~verify_only /\ file = data)

C15_Witness ==
    /\ pc = "Failed"
    /\ failure = "PatchWriteError"
    /\ exit = 1
    /\ file # file0

\* C16: a second full run on the image a first full run patched leaves the
\* same bytes, the same offset and the same two checksums.
C16_Idempotent ==
    (prev.ran /\ prev.pc = "Patched" /\ pc = "Patched") =>
        /\ file = file0
        /\ file_offset = prev.file_offset
        /\ text_crc = prev.text_crc
        /\ rodata_crc = prev.rodata_crc

\* Both checksums of the run have been computed.
ChecksumsDone(stage, why) ==
    /\ stage \notin {"Start", "SectionsExtracted", "Blocked"}
    /\ ~(stage = "Failed" /\ why \in {"ImageNotFound", "SectionExtractionError"})

\* C17: a checksum lies in [0, 2^32), is 0 for the empty byte sequence, and
\* is the same whenever the same image bytes are checksummed again.
C17_ChecksumFunction ==
    ChecksumsDone(pc, failure) =>
        /\ \A c \in {text_crc, rodata_crc} : c.hi \in 0..65535 /\ c.lo \in 0..65535
        /\ text_data.bytes = <<>> => text_crc = U32(0, 0)
        /\ rodata_data.bytes = <<>> => rodata_crc = U32(0, 0)
        /\ (prev.ran /\ ChecksumsDone(prev.pc, prev.failure) /\ prev.file0 = file0) =>
                (text_crc = prev.text_crc /\ rodata_crc = prev.rodata_crc)

C17_Witness ==
    /\ ChecksumsDone(pc, failure)
    /\ rodata_data.bytes = <<>>
    /\ rodata_crc = U32(0, 0)
    /\ text_crc = U32(46652, 64461)
    /\ prev.ran /\ prev.file0 = file0 /\ prev.text_crc = text_crc

\* C18: after a successful patch into .data or .bss the code and read-only
\* bytes of the file are the ones the checksums were computed from, so the
\* stored values are the checksums of the patched file.
C18_SelfConsistent ==
    (pc = "Patched" /\ UsedSection.name \in {DotData, DotBss}) =>
        /\ SectionBytes(file, sections, DotText) = text_data
        /\ SectionBytes(file, sections, DotRodata) = rodata_data
        /\ HoldsChecksums(file)

\* C19: a run whose target is file-backed leaves the file length as it was,
\* and when the window does not fit in the file it does not succeed and
\* leaves the file unchanged.
C19_GrowOnlyZeroInit ==
    (Terminated /\ sect.found /\ UsedSection.type = PROGBITS) =>
        /\ Len(file) = Len(file0)
        /\ (file_offset >= 0 /\ file_offset + PayloadLen > Len(file0)) =>
                (pc # "Patched" /\ file = file0)

\* Position of a stage in the pipeline.
Rank(stage) ==
    CASE stage = "Start" -> 0
      [] stage = "SectionsExtracted" -> 1
      [] stage = "ChecksumsComputed" -> 2
      [] stage = "SymbolResolved" -> 3
      [] stage = "LayoutResolved" -> 4
      [] stage = "OffsetTranslated" -> 5
      [] stage = "ImageRead" -> 6
      [] stage = "BufferPatched" -> 7
      [] stage = "Opened" -> 8
      [] stage = "Written" -> 9
      [] stage = "Patched" -> 10
      [] OTHER -> -1

\* What a stage has in hand.
StageHolds ==
    /\ Rank(pc) >= 1 => (text_data.ok /\ rodata_data.ok)
    /\ Rank(pc) >= 3 => sym.found
    /\ Rank(pc) >= 4 => sect.found
    /\ Rank(pc) >= 5 => file_offset >= 0
    /\ sym.found => (text_data.ok /\ rodata_data.ok)
    /\ sect.found => sym.found
    /\ failure = "SectionExtractionError" =>
            (pc = "Failed" /\ sym = NoSymbol /\ sect = NoSection
                /\ file_offset = -1 /\ data = <<>> /\ file = file0)

\* C20: the stages follow each other one by one, the file is written only
\* from the last stages with sections, checksums, symbol and section in hand,
\* and a failed extraction ends the run before any lookup or write.
C20_PipelineOrder ==
    /\ []StageHolds
    /\ [][ /\ Rank(pc') >= 1 => Rank(pc') = Rank(pc) + 1
           /\ (Rank(pc') = 2 \/ pc' = "Verified") =>
                    (text_crc' = crc32(text_data.bytes)
                        /\ rodata_crc' = crc32(rodata_data.bytes))
           /\ file' # file => (Rank(pc) \in {7, 8} /\ sect.found) ]_vars

C20_Witness ==
    /\ pc = "Failed"
    /\ failure = "SectionExtractionError"
    /\ text_data.ok
    /\ ~rodata_data.ok

\* C21: the resolved address is the address of the symbol-table entry whose
\* name is exactly the requested name, and when no entry has exactly that
\* name nothing is resolved, longer names containing it notwithstanding.
C21_ExactNameMatch ==
    SymbolStageDone =>
        /\ sym.found =>
                \E k \in 1..Len(symtab) :
                    symtab[k].name = symbol /\ symtab[k].addr = sym.addr
        /\ SymbolAbsent => ~sym.found

\* What 'make flake' reported for a task: runs and passed runs.
Reported(c) ==
    IF output[c].kind = "completed"
    THEN [runs |-> Len(output[c].results), passed |-> NrPassed(output[c].results)]
    ELSE [runs |-> 0, passed |-> 0]

\* The status the reported runs call for.
Expected(c) ==
    IF Reported(c).passed = 0 THEN "broken"
    ELSE IF Reported(c).passed = Reported(c).runs THEN "works"
    ELSE "flaky"

StatsOf(c) ==
    {k \in 1..Len(all_stats) :
        all_stats[k].platform = c[1] /\ all_stats[k].use_pci = c[2]}

\* C22: every tested configuration has exactly one status, works when all
\* the runs 'make flake' reported passed, flaky when some but not all did,
\* broken when none did; the runner exits non-zero exactly when some
\* configuration is flaky or broken.
C22_FlakeStatus ==
    /\ \A c \in tasks : futures[c] = "done" =>
            /\ Cardinality(StatsOf(c)) = 1
            /\ \A k \in StatsOf(c) : status(all_stats[k]) = Expected(c)
    /\ flake_exit # -1 =>
            (flake_exit # 0 <=> \E c \in tasks : Expected(c) \in {"flaky", "broken"})

====
